---- MODULE Spec2Model ----
(***************************************************************************)
(* The survey token store of main.py: several worker processes (uvicorn    *)
(* workers), each with its own pending_surveys map and its own             *)
(* surveys_lock, sharing one SURVEYS_FILE and one temporary path.          *)
(* Request threads run create_survey, get_survey and submit_survey; the    *)
(* lifespan runs load_surveys and cleanup_expired_surveys at startup and   *)
(* save_surveys at shutdown.                                               *)
(***************************************************************************)
EXTENDS Integers, Sequences, FiniteSets, TLC

\* ------------------------------------------------------------------ bounds
TicksPerHour == 2
MaxRequests == 2
MaxRestarts == 1
MaxFaults == 1

\* ------------------------------------------------------- program constants
SURVEY_EXPIRY_HOURS == 1
max_retries == 3
base_delay == 1

Workers == {"w1", "w2"}
Threads == {"t1", "t2"}
Main == "main"
Tids == Threads \cup {Main}
Free == "free"

LegacyToken == "tok0"
FreshTokens == <<"tok1", "tok2">>
Tokens == {LegacyToken} \cup {FreshTokens[i] : i \in 1..Len(FreshTokens)}
NoToken == "none"

CreateForms == {<<"PROJ-1", "en">>, <<"PROJ-2", "ru">>}
Scores == {0, 4, 5}
Comments == {<<>>, <<" ">>, <<"o", "k", " ">>}

\* What requests.post may give: the status code of a response, or an exception.
StatusCodes == {200, 404, 500}
Exceptions == {"Timeout", "ConnectionError", "Exception"}

\* ---------------------------------------------------------------- datetime
\* A datetime is a count of clock ticks; TicksPerHour ticks make one hour, the
\* ticks within the hour stand for the sub-second field of a Python datetime.
timedelta(hours) == hours * TicksPerHour

\* The clock stops one tick after a survey created at time 0 has expired.
MaxTime == timedelta(SURVEY_EXPIRY_HOURS) + 1

\* datetime.isoformat(): the text has the fractional field only when it is
\* not zero.
isoformat(dt) ==
    IF dt % TicksPerHour = 0
    THEN <<dt \div TicksPerHour>>
    ELSE <<dt \div TicksPerHour, dt % TicksPerHour>>

\* datetime.fromisoformat()
fromisoformat(s) ==
    s[1] * TicksPerHour + (IF Len(s) > 1 THEN s[2] ELSE 0)

\* ------------------------------------------------------------------ records
NoSurvey ==
    [found |-> FALSE, issue_key |-> "", is_used |-> FALSE, language |-> "",
     created_at |-> 0]

Survey(issue_key, is_used, language, created_at) ==
    [found |-> TRUE, issue_key |-> issue_key, is_used |-> is_used,
     language |-> language, created_at |-> created_at]

EmptyMap == [t \in {} |-> NoSurvey]

\* dict.get(token)
MapGet(m, token) == IF token \in DOMAIN m THEN m[token] ELSE NoSurvey

\* m[token] = survey
MapPut(m, token, survey) ==
    [t \in DOMAIN m \cup {token} |-> IF t = token THEN survey ELSE m[t]]

\* del m[token] for every token of the set
MapDel(m, tokens) == [t \in DOMAIN m \ tokens |-> m[t]]

\* The JSON object save_surveys builds from pending_surveys.
surveys_to_save_of(m) ==
    [t \in DOMAIN m |->
        [issue_key |-> m[t].issue_key, is_used |-> m[t].is_used,
         language |-> m[t].language, created_at |-> isoformat(m[t].created_at)]]

\* One entry of the JSON document turned back into a survey.
survey_from_file(e) ==
    Survey(e.issue_key, e.is_used, e.language, fromisoformat(e.created_at))

\* ------------------------------------------------------------------- files
\* A file is an inode; a path names an inode or nothing.  The content of an
\* inode is a whole JSON document, nothing at all, or bytes that are no JSON
\* document; len is its length in characters.
NoFile == 0
Inodes == 1..(Cardinality(Workers) + 2)

EmptyContent == [whole |-> FALSE, doc |-> EmptyMap, len |-> 0]

RECURSIVE SumLen(_, _)
SumLen(d, S) ==
    IF S = {} THEN 0
    ELSE LET t == CHOOSE x \in S : TRUE
         IN  (IF d[t].is_used THEN 4 ELSE 5)
             + (IF Len(d[t].created_at) = 1 THEN 19 ELSE 26)
             + 100 + SumLen(d, S \ {t})

\* Length of json.dump's text for the document d.
JsonLen(d) == 2 + SumLen(d, DOMAIN d)

\* f.write(text) at offset 0 of an inode that holds `c`: the text replaces the
\* first characters; whatever lay beyond them stays.
WriteOver(c, d) ==
    IF JsonLen(d) >= c.len
    THEN [whole |-> TRUE, doc |-> d, len |-> JsonLen(d)]
    ELSE [whole |-> FALSE, doc |-> EmptyMap, len |-> c.len]

\* open(path, 'r') + json.load: the document, when the content is one.
Readable(c) == c.whole

\* The tokens of the document a reader of `path` gets; none when the path
\* names nothing or the content is no document.
TokensOf(path, ino) ==
    IF path # NoFile /\ Readable(ino[path]) THEN DOMAIN ino[path].doc ELSE {}

\* ------------------------------------------------------------------- state
VARIABLES
    clock,             \* datetime.now(), in ticks
    pending_surveys,   \* per worker: token -> survey
    surveys_lock,      \* per worker: the thread holding the lock, or Free
    thread,            \* per worker and thread: the call it is executing
    SURVEYS_FILE,      \* the inode the path surveys.json names, or NoFile
    temp_file,         \* the inode the path surveys.tmp names, or NoFile
    inode,             \* content of every inode
    fd,                \* per worker: the inode save_surveys has open, or NoFile
    surveys_to_save,   \* per worker: the document save_surveys is writing
    known,             \* history: tokens whose link has been handed out
    made,              \* history: token -> the survey create_survey inserted
    consumed,          \* history: token -> worker -> "no" | "ok" | "saved"
    lastWrite,         \* history: the token of the create_survey whose save put
                       \*   its own document in place as the last change of
                       \*   SURVEYS_FILE, or NoToken
    jira,              \* per worker: the send_to_jira threads it has started
    overlapped,        \* history: some call began while another was running
    requests,          \* history: number of requests begun
    restarts,          \* history: number of shutdowns and crashes
    faults             \* history: number of failed writes

vars ==
    <<clock, pending_surveys, surveys_lock, thread, SURVEYS_FILE, temp_file,
      inode, fd, surveys_to_save, jira, known, made, consumed, lastWrite,
      overlapped, requests, restarts, faults>>

files == <<SURVEYS_FILE, temp_file, inode, fd, surveys_to_save>>
history == <<known, made, consumed, lastWrite, requests, restarts, faults>>

Idle ==
    [op |-> "none", pc |-> "idle", phase |-> "none", tok |-> NoToken,
     res |-> "none", survey |-> NoSurvey, at |-> 0, reloaded |-> FALSE,
     fresh |-> FALSE, saved |-> FALSE, conc |-> FALSE, failed |-> FALSE,
     pre |-> [w \in Workers |-> "no"]]

Down == [Idle EXCEPT !.pc = "down"]
Serving == [Idle EXCEPT !.pc = "serving"]

\* The documents surveys.json may hold when the first worker starts: left by
\* an earlier run of the service.
InitialDocs ==
    { [t \in {LegacyToken} |-> Survey("PROJ-1", u, "en", 0)] : u \in BOOLEAN }

Init ==
    /\ clock = 0
    /\ pending_surveys = [w \in Workers |-> EmptyMap]
    /\ surveys_lock = [w \in Workers |-> Free]
    /\ thread = [w \in Workers |-> [t \in Tids |-> IF t = Main THEN Down ELSE Idle]]
    /\ temp_file = NoFile
    /\ fd = [w \in Workers |-> NoFile]
    /\ surveys_to_save = [w \in Workers |-> EmptyMap]
    /\ \/ /\ SURVEYS_FILE = NoFile
          /\ inode = [i \in Inodes |-> EmptyContent]
          /\ made = [t \in Tokens |-> NoSurvey]
       \/ \E d \in InitialDocs :
             /\ SURVEYS_FILE = 1
             /\ inode = [i \in Inodes |->
                           IF i = 1
                           THEN WriteOver(EmptyContent, surveys_to_save_of(d))
                           ELSE EmptyContent]
             /\ made = [t \in Tokens |-> MapGet(d, t)]
    /\ jira = [w \in Workers |-> <<>>]
    /\ known = {LegacyToken}
    /\ consumed = [t \in Tokens |-> [w \in Workers |-> "no"]]
    /\ lastWrite = NoToken
    /\ overlapped = FALSE
    /\ requests = 0
    /\ restarts = 0
    /\ faults = 0

\* ----------------------------------------------------------------- helpers
\* json.load(f) of the file raises: the file is there and holds no document.
load_fails == SURVEYS_FILE # NoFile /\ ~Readable(inode[SURVEYS_FILE])

Running(th) == th.pc \notin {"idle", "done", "down", "serving"}

AnyRunning == \E w \in Workers, t \in Tids : Running(thread[w][t])

IsServing(w) == thread[w][Main].pc = "serving"

SetThread(w, t, th) == thread' = [thread EXCEPT ![w][t] = th]

\* An inode no path and no open file names any more is gone.
Collect(ino, target, tmp, fds) ==
    [i \in Inodes |->
        IF i = target \/ i = tmp \/ (\E w \in Workers : fds[w] = i)
        THEN ino[i] ELSE EmptyContent]

FreeInode == CHOOSE i \in Inodes :
    /\ i # SURVEYS_FILE /\ i # temp_file /\ \A w \in Workers : fd[w] # i
    /\ \A j \in Inodes :
          (j # SURVEYS_FILE /\ j # temp_file /\ \A w \in Workers : fd[w] # j)
             => i <= j

\* now - survey["created_at"] > timedelta(hours=SURVEY_EXPIRY_HOURS), with >=.
IsExpiredAtBoundary(now, survey) ==
    now - survey.created_at >= timedelta(SURVEY_EXPIRY_HOURS)

\* now - survey["created_at"] > timedelta(hours=SURVEY_EXPIRY_HOURS)
IsExpired(now, survey) ==
    now - survey.created_at > timedelta(SURVEY_EXPIRY_HOURS)

\* A with block left on a path that forgets the lock.
still_held(w) == surveys_lock

\* The end of a `with surveys_lock:` block, by its last statement, a return
\* or an exception: the lock of worker w is released.
released(w) == [surveys_lock EXCEPT ![w] = Free]

\* The state of a thread whose save_surveys has returned (ok: the file was
\* replaced; otherwise the exception was logged and swallowed).
AfterSave(th, ok) ==
    CASE th.op = "create" /\ th.phase = "cleanup" ->
            [th EXCEPT !.pc = "insert"]
      [] th.op = "create" /\ th.phase = "final" ->
            [th EXCEPT !.pc = "done", !.res = "link", !.saved = ok]
      [] th.op = "submit" ->
            [th EXCEPT !.pc = "done", !.res = "ok", !.saved = ok]
      [] th.op = "startup" -> Serving
      [] OTHER -> Down

\* A send_to_jira thread that has not run yet.
NewDelivery ==
    [pc |-> "start", attempt |-> 0, posts |-> 0, sleeps |-> <<>>,
     outcomes |-> <<>>, result |-> "none"]

\* The thread started inside the locked region, before save_surveys().
StartsDeliveryEarly(old, new) ==
    new.op = "submit" /\ new.pc = "save"

\* submit_survey starts the thread when its save_surveys() has returned: the
\* step takes the call from `old` to `new`.
StartsDelivery(old, new) ==
    /\ new.op = "submit" /\ new.pc = "done" /\ new.res = "ok"
    /\ old.pc \in {"write", "replace"}

\* threading.Thread(target=send_to_jira, ...).start(); the threads of a process
\* that has ended are gone.
Started(w, old, new) ==
    IF new.pc = "down" THEN [jira EXCEPT ![w] = <<>>]
    ELSE IF StartsDelivery(old, new)
         THEN [jira EXCEPT ![w] = Append(@, NewDelivery)]
         ELSE jira

\* History kept when a call returns.
Returned(w, old, new) ==
    /\ known' = IF new.pc = "done" /\ new.op = "create"
                THEN known \cup {new.tok} ELSE known
    /\ consumed' = IF new.pc = "done" /\ new.op = "submit" /\ new.res = "ok"
                   THEN [consumed EXCEPT ![new.tok][w] =
                            IF new.saved THEN "saved" ELSE "ok"]
                   ELSE consumed

\* ------------------------------------------------------------------- clock
Tick ==
    /\ clock < MaxTime
    /\ clock' = clock + 1
    /\ UNCHANGED <<pending_surveys, surveys_lock, thread, files, jira, history,
                   overlapped>>

\* ---------------------------------------------------------------- lifespan
\* load_surveys(): the map after it, from the map before it.
load_surveys(m) ==
    IF SURVEYS_FILE = NoFile THEN m
    ELSE IF Readable(inode[SURVEYS_FILE])
         THEN LET d == inode[SURVEYS_FILE].doc
              IN  [t \in DOMAIN m \cup DOMAIN d |->
                      IF t \in DOMAIN d THEN survey_from_file(d[t]) ELSE m[t]]
         ELSE EmptyMap

\* cleanup_expired_surveys(): the tokens its locked region removes from m.
expired_tokens(m, now) ==
    {token \in DOMAIN m : IsExpired(now, m[token]) \/ m[token].is_used}

\* The lifespan of a new process up to the yield: load_surveys(), then the
\* locked region of cleanup_expired_surveys(); save_surveys() follows when
\* something was removed.
Startup(w) ==
    /\ thread[w][Main].pc = "down"
    /\ LET loaded == load_surveys(pending_surveys[w])
           gone == expired_tokens(loaded, clock)
       IN  /\ pending_surveys' = [pending_surveys EXCEPT ![w] = MapDel(loaded, gone)]
           /\ SetThread(w, Main,
                 IF gone # {}
                 THEN [Idle EXCEPT !.op = "startup", !.pc = "save"]
                 ELSE [Serving EXCEPT !.failed = load_fails])
    /\ overlapped' = (overlapped \/ AnyRunning)
    /\ UNCHANGED <<clock, surveys_lock, files, jira, history>>

\* The lifespan after yield: save_surveys() and the end of the process.
Shutdown(w) ==
    /\ IsServing(w)
    /\ \A t \in Threads : ~Running(thread[w][t])
    /\ restarts < MaxRestarts
    /\ restarts' = restarts + 1
    /\ thread' = [thread EXCEPT ![w] =
          [t \in Tids |->
              IF t = Main
              THEN [Idle EXCEPT !.op = "shutdown", !.pc = "save"]
              ELSE Idle]]
    /\ overlapped' = (overlapped \/ AnyRunning)
    /\ UNCHANGED <<clock, pending_surveys, surveys_lock, files, jira, known,
                   made, consumed, lastWrite, requests, faults>>

\* The process is killed: its memory, its lock and its open file are gone, the
\* files stay as they are.
Crash(w) ==
    /\ thread[w][Main].pc # "down"
    /\ restarts < MaxRestarts
    /\ restarts' = restarts + 1
    /\ thread' = [thread EXCEPT ![w] = [t \in Tids |-> IF t = Main THEN Down ELSE Idle]]
    /\ pending_surveys' = [pending_surveys EXCEPT ![w] = EmptyMap]
    /\ surveys_lock' = [surveys_lock EXCEPT ![w] = Free]
    /\ fd' = [fd EXCEPT ![w] = NoFile]
    /\ surveys_to_save' = [surveys_to_save EXCEPT ![w] = EmptyMap]
    /\ inode' = Collect(inode, SURVEYS_FILE, temp_file, fd')
    /\ jira' = [jira EXCEPT ![w] = <<>>]
    /\ UNCHANGED <<clock, SURVEYS_FILE, temp_file, known, made, consumed,
                   lastWrite, overlapped, requests, faults>>

\* ------------------------------------------------------------ save_surveys
\* with surveys_lock: build surveys_to_save; open(temp_file, 'w').
SaveOpen(w, t) ==
    /\ thread[w][t].pc = "save"
    /\ surveys_lock[w] = Free
    /\ surveys_lock' = [surveys_lock EXCEPT ![w] = t]
    /\ surveys_to_save' =
          [surveys_to_save EXCEPT ![w] = surveys_to_save_of(pending_surveys[w])]
    /\ LET i == IF temp_file = NoFile THEN FreeInode ELSE temp_file
       IN  /\ temp_file' = i
           /\ fd' = [fd EXCEPT ![w] = i]
           /\ inode' = [inode EXCEPT ![i] = EmptyContent]
    /\ SetThread(w, t, [thread[w][t] EXCEPT !.pc = "write"])
    /\ UNCHANGED <<clock, pending_surveys, SURVEYS_FILE, jira, history,
                   overlapped>>

\* json.dump(surveys_to_save, f) and the close of f.
SaveWrite(w, t) ==
    /\ thread[w][t].pc = "write"
    /\ fd' = [fd EXCEPT ![w] = NoFile]
    /\ inode' = Collect([inode EXCEPT ![fd[w]] = WriteOver(@, surveys_to_save[w])],
                        SURVEYS_FILE, temp_file, fd')
    /\ lastWrite' = IF fd[w] = SURVEYS_FILE THEN NoToken ELSE lastWrite
    /\ SetThread(w, t, [thread[w][t] EXCEPT !.pc = "replace"])
    /\ UNCHANGED <<clock, pending_surveys, surveys_lock, SURVEYS_FILE, temp_file,
                   surveys_to_save, jira, known, made, consumed, overlapped,
                   requests, restarts, faults>>

\* The write raises (disk full, I/O error): the except clause logs it, the
\* lock is released and save_surveys returns.
SaveWriteFail(w, t) ==
    /\ thread[w][t].pc = "write"
    /\ faults < MaxFaults
    /\ faults' = faults + 1
    /\ fd' = [fd EXCEPT ![w] = NoFile]
    /\ inode' = Collect(inode, SURVEYS_FILE, temp_file, fd')
    /\ surveys_to_save' = [surveys_to_save EXCEPT ![w] = EmptyMap]
    /\ surveys_lock' = released(w)
    /\ LET new == AfterSave(thread[w][t], FALSE)
       IN  /\ SetThread(w, t, new)
           /\ Returned(w, thread[w][t], new)
           /\ jira' = Started(w, thread[w][t], new)
           /\ pending_surveys' =
                 IF new.pc = "down"
                 THEN [pending_surveys EXCEPT ![w] = EmptyMap]
                 ELSE pending_surveys
    /\ UNCHANGED <<clock, SURVEYS_FILE, temp_file, made, lastWrite, overlapped,
                   requests, restarts>>

\* temp_file.replace(SURVEYS_FILE); raises when the temporary path names
\* nothing (another process has renamed it away).
SaveReplace(w, t) ==
    /\ thread[w][t].pc = "replace"
    /\ LET ok == temp_file # NoFile
           new == AfterSave(thread[w][t], ok)
       IN  /\ SURVEYS_FILE' = IF ok THEN temp_file ELSE SURVEYS_FILE
           /\ temp_file' = NoFile
           /\ inode' = Collect(inode, SURVEYS_FILE', temp_file', fd)
           /\ lastWrite' =
                 IF ~ok THEN lastWrite
                 ELSE IF thread[w][t].op = "create" /\ thread[w][t].phase = "final"
                         /\ inode[temp_file] =
                               WriteOver(EmptyContent, surveys_to_save[w])
                      THEN thread[w][t].tok ELSE NoToken
           /\ SetThread(w, t, new)
           /\ Returned(w, thread[w][t], new)
           /\ jira' = Started(w, thread[w][t], new)
           /\ pending_surveys' =
                 IF new.pc = "down"
                 THEN [pending_surveys EXCEPT ![w] = EmptyMap]
                 ELSE pending_surveys
    /\ surveys_to_save' = [surveys_to_save EXCEPT ![w] = EmptyMap]
    /\ surveys_lock' = released(w)
    /\ UNCHANGED <<clock, fd, made, overlapped, requests, restarts, faults>>

\* ---------------------------------------------------------------- requests
CanCall(w, t) ==
    /\ IsServing(w)
    /\ thread[w][t].pc \in {"idle", "done"}
    /\ requests < MaxRequests

Called(w) ==
    /\ requests' = requests + 1
    /\ overlapped' = (overlapped \/ AnyRunning)

\* secrets.token_urlsafe(16): a token never issued before.
NextToken ==
    LET used == known \cup {thread[w][t].tok : w \in Workers, t \in Tids}
        i == CHOOSE k \in 1..Len(FreshTokens) :
                /\ FreshTokens[k] \notin used
                /\ \A j \in 1..(k - 1) : FreshTokens[j] \in used
    IN  FreshTokens[i]

HasNextToken ==
    LET used == known \cup {thread[w][t].tok : w \in Workers, t \in Tids}
    IN  \E k \in 1..Len(FreshTokens) : FreshTokens[k] \notin used

\* POST /survey/create: the call begins with the locked region of
\* cleanup_expired_surveys(); save_surveys() follows when something was removed.
CreateCleanup(w, t) ==
    /\ CanCall(w, t)
    /\ HasNextToken
    /\ surveys_lock[w] = Free
    /\ LET gone == expired_tokens(pending_surveys[w], clock)
           th == [Idle EXCEPT !.op = "create", !.phase = "cleanup", !.tok = NextToken]
       IN  /\ pending_surveys' = [pending_surveys EXCEPT ![w] = MapDel(@, gone)]
           /\ SetThread(w, t,
                 IF gone # {} THEN [th EXCEPT !.pc = "save"]
                 ELSE [th EXCEPT !.pc = "insert"])
    /\ Called(w)
    /\ UNCHANGED <<clock, surveys_lock, files, jira, known, made, consumed,
                   lastWrite, restarts, faults>>

\* create_survey: with surveys_lock: pending_surveys[token] = {...}
CreateInsert(w, t, form) ==
    /\ thread[w][t].pc = "insert"
    /\ surveys_lock[w] = Free
    /\ LET survey == Survey(form[1], FALSE, form[2], clock)
       IN  /\ pending_surveys' = [pending_surveys EXCEPT ![w] =
                                     MapPut(@, thread[w][t].tok, survey)]
           /\ made' = [made EXCEPT ![thread[w][t].tok] = survey]
    /\ SetThread(w, t, [thread[w][t] EXCEPT !.pc = "save", !.phase = "final"])
    /\ UNCHANGED <<clock, surveys_lock, files, jira, known, consumed, lastWrite,
                   overlapped, requests, restarts, faults>>

\* get_survey, after the lookup: the expiry check and the copy of the data.
get_result(th, survey, now) ==
    IF survey.found /\ ~IsExpired(now, survey)
    THEN [th EXCEPT !.pc = "done", !.res = "survey", !.survey = survey, !.at = now]
    ELSE [th EXCEPT !.pc = "done", !.res = "403", !.survey = survey,
                    !.at = IF survey.found THEN now ELSE 0]

\* GET /survey/{token}: with surveys_lock: survey = pending_surveys.get(token);
\* when the token is in memory, or no file exists, the call ends here.
GetLookup(w, t, token) ==
    /\ CanCall(w, t)
    /\ surveys_lock[w] = Free
    /\ LET th == [Idle EXCEPT !.op = "get", !.tok = token, !.pre = consumed[token]]
           survey == MapGet(pending_surveys[w], token)
       IN  IF ~survey.found /\ SURVEYS_FILE # NoFile
           THEN /\ surveys_lock' = [surveys_lock EXCEPT ![w] = t]
                /\ SetThread(w, t, [th EXCEPT !.pc = "reload"])
           ELSE /\ surveys_lock' = surveys_lock
                /\ SetThread(w, t, get_result(th, survey, clock))
    /\ Called(w)
    /\ UNCHANGED <<clock, pending_surveys, files, jira, known, made, consumed,
                   lastWrite, restarts, faults>>

\* A lookup that never consults the document on disk.
reload_skipped(token) ==
    NoSurvey

\* The entry of `token` in the document on disk, when the document can be read
\* and has one.
reload_from_disk(token) ==
    LET c == inode[SURVEYS_FILE]
    IN  IF Readable(c) /\ token \in DOMAIN c.doc
        THEN survey_from_file(c.doc[token])
        ELSE NoSurvey

\* The reload marking the record it serves as used.
after_reload_used(m, token, survey) ==
    IF survey.found THEN MapPut(m, token, [survey EXCEPT !.is_used = TRUE]) ELSE m

\* The reload with the handler of load_surveys: a failure empties the map.
after_reload_reset(m, token, survey) ==
    IF load_fails THEN EmptyMap
    ELSE IF survey.found THEN MapPut(m, token, survey) ELSE m

\* The map after the reload of get_survey: the entry found is put in it; when
\* the document cannot be read the exception is logged and the map is as it was.
after_reload(m, token, survey) ==
    IF survey.found THEN MapPut(m, token, survey) ELSE m

\* get_survey: the reload of the token from disk, still under the lock.
GetReload(w, t) ==
    /\ thread[w][t].op = "get"
    /\ thread[w][t].pc = "reload"
    /\ LET token == thread[w][t].tok
           survey == reload_from_disk(token)
       IN  /\ pending_surveys' =
                 [pending_surveys EXCEPT ![w] = after_reload(@, token, survey)]
           /\ SetThread(w, t,
                 get_result([thread[w][t] EXCEPT !.reloaded = TRUE,
                                               !.failed = load_fails,
                                               !.fresh = (lastWrite = token)],
                            survey, clock))
    /\ surveys_lock' = released(w)
    /\ UNCHANGED <<clock, files, jira, history, overlapped>>

\* str.strip(): the text without its leading and trailing blanks.
RECURSIVE lstrip(_)
lstrip(s) == IF s # <<>> /\ Head(s) = " " THEN lstrip(Tail(s)) ELSE s

RECURSIVE rstrip(_)
rstrip(s) ==
    IF s # <<>> /\ s[Len(s)] = " " THEN rstrip(SubSeq(s, 1, Len(s) - 1)) ELSE s

strip(s) == rstrip(lstrip(s))

\* submit_survey, after the lookup: the checks in the order of the code and
\* the removal of the token.
submit_result(th, survey, score, comment, now) ==
    LET seen == [th EXCEPT !.survey = survey, !.at = IF survey.found THEN now ELSE 0]
    IN  IF ~survey.found THEN [seen EXCEPT !.pc = "done", !.res = "403"]
        ELSE IF score \notin {1, 2, 3, 4, 5}
             THEN [seen EXCEPT !.pc = "done", !.res = "400 score"]
        ELSE IF score <= 4 /\ strip(comment) = <<>>
             THEN [seen EXCEPT !.pc = "done", !.res = "400 comment"]
        ELSE [seen EXCEPT !.pc = "save"]

\* The threads of worker w, other than t, that are inside submit_survey(token).
Peers(w, t, token) ==
    {u \in Threads \ {t} :
        /\ thread[w][u].op = "submit"
        /\ thread[w][u].tok = token
        /\ Running(thread[w][u])}

\* The locked region of submit_survey with the token deleted before the checks.
after_submit_eager(m, token, survey, accepted) ==
    IF survey.found THEN MapDel(m, {token}) ELSE m

\* The map after the locked region of submit_survey: an entry reloaded from
\* disk is in it, and the token is deleted once the checks have passed.
after_submit(m, token, survey, accepted) ==
    IF accepted THEN MapDel(m, {token})
    ELSE IF survey.found THEN MapPut(m, token, survey)
    ELSE m

\* The locked region of submit_survey once the survey is looked up: the checks
\* and the removal of the token.
SubmitDecide(w, t, th, survey) ==
    \E score \in Scores, comment \in Comments :
       LET new == submit_result(th, survey, score, comment, clock)
       IN  /\ thread' = [thread EXCEPT ![w] =
                 [u \in Tids |->
                     IF u = t THEN new
                     ELSE IF u \in Peers(w, t, th.tok)
                          THEN [thread[w][u] EXCEPT !.conc = TRUE]
                          ELSE thread[w][u]]]
           /\ pending_surveys' =
                 [pending_surveys EXCEPT ![w] =
                     after_submit(@, th.tok, survey, new.pc = "save")]
           /\ jira' = Started(w, th, new)

\* POST /survey/{token}/submit: with surveys_lock: survey =
\* pending_surveys.get(token); when the token is in memory, or no file exists,
\* the checks follow at once.
SubmitLookup(w, t, token) ==
    /\ CanCall(w, t)
    /\ surveys_lock[w] = Free
    /\ LET th == [Idle EXCEPT !.op = "submit", !.tok = token, !.pre = consumed[token],
                              !.conc = (Peers(w, t, token) # {})]
           survey == MapGet(pending_surveys[w], token)
       IN  IF ~survey.found /\ SURVEYS_FILE # NoFile
           THEN /\ surveys_lock' = [surveys_lock EXCEPT ![w] = t]
                /\ thread' = [thread EXCEPT ![w] =
                      [u \in Tids |->
                          IF u = t THEN [th EXCEPT !.pc = "reload"]
                          ELSE IF u \in Peers(w, t, token)
                               THEN [thread[w][u] EXCEPT !.conc = TRUE]
                               ELSE thread[w][u]]]
                /\ pending_surveys' = pending_surveys
                /\ jira' = jira
           ELSE /\ surveys_lock' = surveys_lock
                /\ SubmitDecide(w, t, th, survey)
    /\ Called(w)
    /\ UNCHANGED <<clock, files, known, made, consumed, lastWrite, restarts, faults>>

\* submit_survey: the reload of the token from disk, the checks and the
\* removal, still under the lock.
SubmitReload(w, t) ==
    /\ thread[w][t].op = "submit"
    /\ thread[w][t].pc = "reload"
    /\ SubmitDecide(w, t,
          [thread[w][t] EXCEPT !.reloaded = TRUE,
                               !.failed = load_fails,
                               !.fresh = (lastWrite = thread[w][t].tok)],
          reload_from_disk(thread[w][t].tok))
    /\ surveys_lock' = released(w)
    /\ UNCHANGED <<clock, files, history, overlapped>>

\* ------------------------------------------------------------ send_to_jira
\* The state of the store: send_to_jira names none of it.
store == <<pending_surveys, surveys_lock, thread, files>>

SetDelivery(w, i, d) == jira' = [jira EXCEPT ![w][i] = d]

\* The frame of every step of send_to_jira.
DeliveryFrame == UNCHANGED <<clock, store, history, overlapped>>

\* if 200 <= resp.status_code < 300
is_success(status) == 200 <= status /\ status < 300

\* if 500 <= resp.status_code < 600, with every error status taken for one.
is_any_error(status) == 400 <= status

\* if 500 <= resp.status_code < 600
is_server_error(status) == 500 <= status /\ status < 600

\* if attempt < max_retries - 1, giving up one attempt early.
retry_allowed_short(attempt) == attempt < max_retries - 2

\* if attempt < max_retries - 1
retry_allowed(attempt) == attempt < max_retries - 1

\* delay = base_delay * (2 ** attempt), without the doubling.
backoff_constant(attempt) == base_delay

\* delay = base_delay * (2 ** attempt)
backoff(attempt) == base_delay * (2 ^ attempt)

\* The branch shared by a 5xx response, a Timeout and a ConnectionError: sleep
\* and go round the loop, or log the terminal failure and return.
retry_or_give_up(d) ==
    IF retry_allowed(d.attempt)
    THEN [d EXCEPT !.pc = "sleep", !.sleeps = Append(@, backoff(d.attempt))]
    ELSE [d EXCEPT !.pc = "done", !.result = "gave up"]

\* send_to_jira up to the loop: without JIRA_WEBHOOK_URL it returns at once.
DeliverBegin(w, i) ==
    /\ i \in DOMAIN jira[w]
    /\ jira[w][i].pc = "start"
    /\ \E url_set \in BOOLEAN :
          SetDelivery(w, i,
             IF url_set /\ 0 < max_retries
             THEN [jira[w][i] EXCEPT !.pc = "post"]
             ELSE [jira[w][i] EXCEPT !.pc = "done", !.result = "skipped"])
    /\ DeliveryFrame

\* requests.post returns a response.
DeliverResponse(w, i, status) ==
    /\ i \in DOMAIN jira[w]
    /\ jira[w][i].pc = "post"
    /\ LET d == [jira[w][i] EXCEPT
                    !.posts = @ + 1,
                    !.outcomes = Append(@, [status |-> status, exc |-> ""])]
       IN  SetDelivery(w, i,
              IF is_success(status)
              THEN [d EXCEPT !.pc = "done", !.result = "success"]
              ELSE IF is_server_error(status) THEN retry_or_give_up(d)
              ELSE [d EXCEPT !.pc = "done", !.result = "client error"])
    /\ DeliveryFrame

\* requests.post raises.
DeliverRaise(w, i, exc) ==
    /\ i \in DOMAIN jira[w]
    /\ jira[w][i].pc = "post"
    /\ LET d == [jira[w][i] EXCEPT
                    !.posts = @ + 1,
                    !.outcomes = Append(@, [status |-> 0, exc |-> exc])]
       IN  SetDelivery(w, i,
              IF exc \in {"Timeout", "ConnectionError"} THEN retry_or_give_up(d)
              ELSE [d EXCEPT !.pc = "done", !.result = "unexpected error"])
    /\ DeliveryFrame

\* time.sleep(delay) returns and the for loop takes the next attempt, when
\* range(max_retries) has one.
DeliverSleep(w, i) ==
    /\ i \in DOMAIN jira[w]
    /\ jira[w][i].pc = "sleep"
    /\ SetDelivery(w, i,
          IF jira[w][i].attempt + 1 < max_retries
          THEN [jira[w][i] EXCEPT !.pc = "post", !.attempt = @ + 1]
          ELSE [jira[w][i] EXCEPT !.pc = "done", !.result = "loop ended"])
    /\ DeliveryFrame

\* The steps of the send_to_jira threads of the workers Ws.
Deliver(Ws) ==
    \/ \E w \in Ws, i \in 1..MaxRequests : DeliverBegin(w, i)
    \/ \E w \in Ws, i \in 1..MaxRequests, status \in StatusCodes :
          DeliverResponse(w, i, status)
    \/ \E w \in Ws, i \in 1..MaxRequests, exc \in Exceptions :
          DeliverRaise(w, i, exc)
    \/ \E w \in Ws, i \in 1..MaxRequests : DeliverSleep(w, i)

\* ------------------------------------------------------------ specification
\* The steps of the workers Ws, each serving requests on the threads Ts;
\* Forms are the forms posted to /survey/create.
Serve(Ws, Ts, Forms) ==
    \/ Tick
    \/ \E w \in Ws : Startup(w)
    \/ \E w \in Ws, t \in Ts \cup {Main} : SaveOpen(w, t)
    \/ \E w \in Ws, t \in Ts \cup {Main} : SaveWrite(w, t)
    \/ \E w \in Ws, t \in Ts \cup {Main} : SaveReplace(w, t)
    \/ \E w \in Ws, t \in Ts : CreateCleanup(w, t)
    \/ \E w \in Ws, t \in Ts, form \in Forms : CreateInsert(w, t, form)
    \/ \E w \in Ws, t \in Ts, token \in known : GetLookup(w, t, token)
    \/ \E w \in Ws, t \in Ts : GetReload(w, t)
    \/ \E w \in Ws, t \in Ts, token \in known : SubmitLookup(w, t, token)
    \/ \E w \in Ws, t \in Ts : SubmitReload(w, t)

\* The ends of a process and the failures of the disk.
Fail(Ws, Ts) ==
    \/ \E w \in Ws : Shutdown(w)
    \/ \E w \in Ws : Crash(w)
    \/ \E w \in Ws, t \in Ts \cup {Main} : SaveWriteFail(w, t)

\* One worker process with one request thread, which may stop and crash.
NextRestart ==
    \/ Serve({"w1"}, {"t1"}, CreateForms)
    \/ Shutdown("w1")
    \/ Crash("w1")
SpecRestart == Init /\ [][NextRestart]_vars

\* One worker process with two request threads, which may stop, crash and
\* fail to write.
NextThreads == Serve({"w1"}, Threads, CreateForms) \/ Fail({"w1"}, Threads)
SpecThreads == Init /\ [][NextThreads]_vars

\* Two worker processes with one request thread each.
NextWorkers == Serve(Workers, {"t1"}, {<<"PROJ-2", "ru">>})
SpecWorkers == Init /\ [][NextWorkers]_vars

\* One worker process with one request thread and the send_to_jira threads its
\* submissions start.
NextDelivery == Serve({"w1"}, {"t1"}, {<<"PROJ-1", "en">>}) \/ Deliver({"w1"})
SpecDelivery == Init /\ [][NextDelivery]_vars

\* A worker process serving requests on one thread beside a second process
\* that gets no request, and may crash and be started again.
NextRecover ==
    \/ Serve({"w1"}, {"t1"}, {<<"PROJ-2", "ru">>})
    \/ Startup("w2")
    \/ SaveOpen("w2", Main)
    \/ SaveWrite("w2", Main)
    \/ SaveReplace("w2", Main)
    \/ Crash("w2")
SpecRecover == Init /\ [][NextRecover]_vars

\* One worker process whose two request threads get submissions only, and the
\* send_to_jira threads they start, each scheduled again and again.
NextSubmitting ==
    \/ Startup("w1")
    \/ \E t \in Tids : SaveOpen("w1", t) \/ SaveWrite("w1", t) \/ SaveReplace("w1", t)
    \/ \E t \in Threads, token \in known : SubmitLookup("w1", t, token)
    \/ \E t \in Threads : SubmitReload("w1", t)
    \/ Deliver({"w1"})
SpecDeliveryFair ==
    Init /\ [][NextSubmitting]_vars /\ WF_vars(Deliver({"w1"}))

\* Two worker processes with one request thread each: the first gets the
\* creations, the second the lookups and submissions.
NextShared ==
    \/ Tick
    \/ \E w \in Workers : Startup(w)
    \/ \E w \in Workers, t \in {"t1", Main} :
          SaveOpen(w, t) \/ SaveWrite(w, t) \/ SaveReplace(w, t)
    \/ CreateCleanup("w1", "t1")
    \/ CreateInsert("w1", "t1", <<"PROJ-2", "ru">>)
    \/ \E token \in known : GetLookup("w2", "t1", token)
    \/ GetReload("w2", "t1")
    \/ \E token \in known : SubmitLookup("w2", "t1", token)
    \/ SubmitReload("w2", "t1")
SpecShared == Init /\ [][NextShared]_vars

\* What a started process does by itself, no request arriving: it finishes
\* its startup and the calls and saves it has begun.
Proceeds(w) ==
    \/ Startup(w)
    \/ \E t \in Tids : SaveOpen(w, t) \/ SaveWrite(w, t) \/ SaveReplace(w, t)
    \/ \E t \in Threads, form \in CreateForms : CreateInsert(w, t, form)
    \/ \E t \in Threads : GetReload(w, t) \/ SubmitReload(w, t)

\* One worker process with one request thread; time passes and the process
\* keeps running, whether requests arrive or not.
NextAlone == Serve({"w1"}, {"t1"}, {<<"PROJ-1", "en">>})
SpecAloneFair ==
    Init /\ [][NextAlone]_vars /\ WF_vars(Tick) /\ WF_vars(Proceeds("w1"))

\* One worker process with two request threads; the process keeps running and
\* finishes what it has begun.
NextContend == Serve({"w1"}, Threads, {<<"PROJ-1", "en">>})
SpecContendFair ==
    Init /\ [][NextContend]_vars /\ WF_vars(Tick) /\ WF_vars(Proceeds("w1"))

\* ------------------------------------------------------------------ claims
Requests == {thread[w][t] : w \in Workers, t \in Threads}

NoFailure == faults = 0 /\ restarts = 0

\* C1: two submit_survey calls of one process that run at the same time on the
\* same token, both with a valid score and comment, never both return ok.
C1_SingleConsumption ==
    \A w \in Workers : \A t, u \in Threads :
        (/\ t # u /\ NoFailure
         /\ thread[w][t].op = "submit" /\ thread[w][u].op = "submit"
         /\ thread[w][t].tok = thread[w][u].tok
         /\ thread[w][t].conc /\ thread[w][u].conc
         /\ thread[w][t].pc = "done" /\ thread[w][u].pc = "done")
        => ~(thread[w][t].res = "ok" /\ thread[w][u].res = "ok")

\* C2: once submit_survey(T) has returned ok in a process, T is in neither the
\* map of that process nor the document on disk, and every get_survey(T) begun
\* afterwards in that process returns the invalid-link page.
C2_ConsumptionPermanent ==
    NoFailure =>
        /\ \A w \in Workers, token \in Tokens :
              consumed[token][w] # "no" =>
                  /\ token \notin DOMAIN pending_surveys[w]
                  /\ token \notin TokensOf(SURVEYS_FILE, inode)
        /\ \A w \in Workers, t \in Threads :
              (/\ thread[w][t].op = "get" /\ thread[w][t].pc = "done"
               /\ thread[w][t].pre[w] # "no")
              => thread[w][t].res = "403"

\* C3: a submit_survey that finds the token older than the expiry window is
\* rejected: it removes nothing and does not return ok.
C3_ExpiredNotConsumed ==
    \A r \in Requests :
        (/\ r.op = "submit" /\ r.survey.found
         /\ r.at - r.survey.created_at > timedelta(SURVEY_EXPIRY_HOURS))
        => (r.pc = "done" /\ r.res # "ok")

\* C4 as stated: a get_survey that finds the record created at T returns the
\* survey exactly when the query time is before T + expiry.
C4_VisibleBeforeExpiry ==
    \A r \in Requests :
        (r.op = "get" /\ r.pc = "done" /\ r.survey.found /\ ~r.survey.is_used)
        => (r.res = "survey"
              <=> r.at < r.survey.created_at + timedelta(SURVEY_EXPIRY_HOURS))

\* C4 as amended: a get_survey that finds the unused record created at T
\* returns the survey exactly when the query time is at most T + expiry; at
\* T + expiry itself the survey is still returned.
C4_VisibleThroughExpiry ==
    \A r \in Requests :
        (r.op = "get" /\ r.pc = "done" /\ r.survey.found /\ ~r.survey.is_used)
        => (r.res = "survey"
              <=> r.at <= r.survey.created_at + timedelta(SURVEY_EXPIRY_HOURS))

\* C4 witness: a get_survey answered with the survey at exactly T + expiry,
\* and another answered with the invalid-link page after it.
C4_Witness ==
    /\ \E r \in Requests :
          /\ r.op = "get" /\ r.pc = "done" /\ r.res = "survey"
          /\ r.at = r.survey.created_at + timedelta(SURVEY_EXPIRY_HOURS)
    /\ \E r \in Requests :
          /\ r.op = "get" /\ r.pc = "done" /\ r.res = "403" /\ r.survey.found
          /\ r.at > r.survey.created_at + timedelta(SURVEY_EXPIRY_HOURS)

\* C5: a lookup that finds a record whose is_used is true answers with the
\* invalid-link outcome, in get_survey and in submit_survey.
C5_UsedNeverReturned ==
    \A r \in Requests :
        (/\ r.op \in {"get", "submit"} /\ r.pc = "done"
         /\ r.survey.found /\ r.survey.is_used)
        => r.res \notin {"survey", "ok"}

\* C6: a get_survey or submit_survey that misses the token in memory and reads
\* the document on disk, while the last change of the file is the save of the
\* create_survey that made the token, finds the survey as it was created and
\* puts it in the map of its own process.
C6_ReloadFindsNewToken ==
    \A w \in Workers : \A t \in Threads :
        LET r == thread[w][t]
        IN  (r.op \in {"get", "submit"} /\ r.reloaded /\ r.fresh)
            => /\ r.survey = made[r.tok]
               /\ r.op = "get" =>
                     /\ r.res = (IF IsExpired(r.at, r.survey) THEN "403" ELSE "survey")
                     /\ lastWrite = r.tok =>
                           MapGet(pending_surveys[w], r.tok) = made[r.tok]

\* C6 witness: a worker that did not create the token has served it from the
\* document on disk.
C6_Witness ==
    \E w \in Workers : \E t \in Threads :
        LET r == thread[w][t]
        IN  /\ r.op = "get" /\ r.pc = "done" /\ r.reloaded /\ r.fresh
            /\ r.res = "survey" /\ r.tok # LegacyToken
            /\ \E v \in Workers \ {w} : \E u \in Threads :
                  /\ thread[v][u].op = "create" /\ thread[v][u].pc = "done"
                  /\ thread[v][u].tok = r.tok

\* C7: when the calls so far ran one after the other, a token whose
\* create_survey has returned after a successful save, and that is neither
\* consumed nor expired, is in the document on disk.
C7_NoLostRecords ==
    (~overlapped /\ ~AnyRunning) =>
        \A r \in Requests :
            (/\ r.op = "create" /\ r.pc = "done" /\ r.saved
             /\ \A w \in Workers : consumed[r.tok][w] = "no"
             /\ ~IsExpired(clock, made[r.tok]))
            => r.tok \in TokensOf(SURVEYS_FILE, inode)

\* C8: a get_survey or submit_survey of worker A that begins after another
\* worker's submit_survey of the token has returned ok with its snapshot saved
\* does not serve or consume the token.
C8_ConsumptionVisible ==
    \A w \in Workers : \A t \in Threads :
        LET r == thread[w][t]
        IN  (/\ r.op \in {"get", "submit"}
             /\ \E v \in Workers \ {w} : r.pre[v] = "saved")
            => (r.pc \notin {"save", "write", "replace"}
                /\ r.res \notin {"survey", "ok"})

\* C9: whenever SURVEYS_FILE exists, its content is one whole document.
C9_NeverTorn ==
    SURVEYS_FILE # NoFile => Readable(inode[SURVEYS_FILE])

\* C10: a get_survey of a token whose create_survey has returned, not
\* consumed and within the expiry window, returns the survey with the
\* issue_key, language, is_used and created_at it was created with, also
\* after the process has restarted and loaded the file.
C10_DurabilityRoundTrip ==
    \A r \in Requests :
        (/\ r.op = "get" /\ r.pc = "done"
         /\ r.tok \in known \ {LegacyToken}
         /\ \A w \in Workers : consumed[r.tok][w] = "no" /\ r.pre[w] = "no"
         /\ ~IsExpired(clock, made[r.tok]))
        => (/\ r.res = "survey"
            /\ r.survey = made[r.tok]
            /\ r.survey.is_used = FALSE)

\* A step of submit_survey in thread t of worker w that ends the call with a
\* 400: the score is not in 1..5, or it is at most 4 and the comment is blank.
SubmitRejects(w, t) ==
    /\ \/ \E token \in known : SubmitLookup(w, t, token)
       \/ SubmitReload(w, t)
    /\ thread'[w][t].pc = "done"
    /\ thread'[w][t].res \in {"400 score", "400 comment"}

\* C11 as stated: a submit_survey rejected for its score or its blank comment
\* leaves every in-memory map and the files exactly as they were and starts no
\* delivery.
C11_RejectedChangesNothing ==
    [][\A w \in Workers, t \in Threads :
          SubmitRejects(w, t) =>
              /\ pending_surveys' = pending_surveys
              /\ UNCHANGED files
              /\ jira' = jira]_vars

\* C11 as amended: the rejected submit_survey leaves the files as they were,
\* starts no delivery, and removes or alters no record of the map; the one
\* change it can make is to put the record of its token, as read from disk,
\* in the map that lacked it; the record is in the map after the call.
C11_RejectedKeepsRecords ==
    [][\A w \in Workers, t \in Threads :
          SubmitRejects(w, t) =>
              LET m == pending_surveys[w]
                  token == thread'[w][t].tok
              IN  /\ UNCHANGED files
                  /\ jira' = jira
                  /\ \A v \in Workers \ {w} :
                        pending_surveys'[v] = pending_surveys[v]
                  /\ MapGet(pending_surveys'[w], token).found
                  /\ \/ pending_surveys'[w] = m
                     \/ /\ token \notin DOMAIN m
                        /\ pending_surveys'[w] =
                              MapPut(m, token, reload_from_disk(token))]_vars

\* C11 witness: a submit_survey rejected for its blank comment after it had
\* read its token from disk, the token being in the map now.
C11_Witness ==
    \E w \in Workers, t \in Threads :
        /\ thread[w][t].op = "submit" /\ thread[w][t].pc = "done"
        /\ thread[w][t].res = "400 comment" /\ thread[w][t].reloaded
        /\ thread[w][t].tok \in DOMAIN pending_surveys[w]

\* C12: a create_survey that returns a link, and a submit_survey that returns
\* ok, have had their save_surveys() write and replace the file; when the
\* write or the replace fails the call returns an error instead.
C12_PersistFailureSurfaced ==
    \A r \in Requests :
        (/\ r.op \in {"create", "submit"} /\ r.pc = "done"
         /\ r.res \in {"link", "ok"})
        => r.saved

\* C13: when the document on disk cannot be deserialized, load_surveys at
\* startup and the reload of get_survey and submit_survey leave the map with
\* exactly the records it had, and the process goes on: the lifespan reaches
\* its yield, the request is answered.
C13_FailedLoadKeepsMap ==
    [][\A w \in Workers :
          /\ (Startup(w) /\ load_fails) =>
                /\ pending_surveys'[w] = pending_surveys[w]
                /\ thread'[w][Main].pc = "serving"
          /\ \A t \in Threads :
                ((GetReload(w, t) \/ SubmitReload(w, t)) /\ load_fails) =>
                    /\ pending_surveys' = pending_surveys
                    /\ thread'[w][t].pc = "done"
                    /\ thread'[w][t].res = "403"]_vars

\* C13 witness: a reload has failed in a process that holds records, and a
\* process has started on a file it could not read.
C13_Witness ==
    /\ \E w \in Workers, t \in Threads :
          /\ thread[w][t].reloaded /\ thread[w][t].failed
          /\ thread[w][t].pc = "done"
          /\ pending_surveys[w] # EmptyMap
    /\ \E w \in Workers : IsServing(w) /\ thread[w][Main].failed

\* The send_to_jira threads started so far.
Deliveries == UNION {{jira[w][i] : i \in DOMAIN jira[w]} : w \in Workers}

\* An attempt that ended with a 5xx response, a timeout or a connection error.
Retryable(o) ==
    \/ o.exc \in {"Timeout", "ConnectionError"}
    \/ o.exc = "" /\ o.status \in 500..599

\* C14: send_to_jira never sends more than max_retries POSTs; when every
\* attempt ended with a 5xx response, a timeout or a connection error it has
\* sent exactly max_retries POSTs and given up, returning to its caller; and
\* every send_to_jira that was started comes to its end: again and again all
\* the threads started so far have returned.
C14_BoundedRetry ==
    /\ [](\A w \in Workers : \A i \in DOMAIN jira[w] :
            LET d == jira[w][i]
            IN  /\ d.posts <= max_retries
                /\ d.posts = Len(d.outcomes)
                /\ (/\ d.pc = "done" /\ d.posts > 0
                    /\ \A k \in DOMAIN d.outcomes : Retryable(d.outcomes[k]))
                   => (d.posts = max_retries /\ d.result = "gave up"))
    /\ []<>(\A d \in Deliveries : d.pc = "done")

\* C14 witness: a send_to_jira that gave up after max_retries POSTs, a timeout,
\* a connection error and a 5xx response among them.
C14_Witness ==
    \E w \in Workers : \E i \in DOMAIN jira[w] :
        LET d == jira[w][i]
        IN  /\ d.pc = "done" /\ d.result = "gave up" /\ d.posts = max_retries
            /\ \E k \in DOMAIN d.outcomes : d.outcomes[k].exc = "Timeout"
            /\ \E k \in DOMAIN d.outcomes : d.outcomes[k].exc = "ConnectionError"
            /\ \E k \in DOMAIN d.outcomes : d.outcomes[k].status = 500

\* An attempt that received a 2xx or a 4xx response.
Terminal(o) == o.exc = "" /\ (o.status \in 200..299 \/ o.status \in 400..499)

\* C15: an attempt of send_to_jira that received a 2xx or a 4xx response is
\* its last: send_to_jira has returned, no POST and no sleep came after it.
C15_TerminalEndsDelivery ==
    \A d \in Deliveries : \A k \in DOMAIN d.outcomes :
        Terminal(d.outcomes[k]) =>
            /\ k = Len(d.outcomes)
            /\ d.posts = k
            /\ Len(d.sleeps) = k - 1
            /\ d.pc = "done"

\* C15 witness: a 4xx response to the second attempt, one attempt remaining,
\* has ended a send_to_jira.
C15_Witness ==
    \E d \in Deliveries :
        /\ d.pc = "done" /\ Len(d.outcomes) = 2 /\ 2 < max_retries
        /\ d.outcomes[2].status = 404
        /\ d.result = "client error"

\* C16: a record of a running process that is expired or used is in the end
\* removed from the map of the process and from the document on disk, also
\* when no request arrives.
C16_EventuallyPurged ==
    \A token \in Tokens :
        (/\ token \in DOMAIN pending_surveys["w1"]
         /\ \/ IsExpired(clock, pending_surveys["w1"][token])
            \/ pending_surveys["w1"][token].is_used)
        ~> (/\ token \notin DOMAIN pending_surveys["w1"]
            /\ token \notin TokensOf(SURVEYS_FILE, inode))

\* C17: a send_to_jira thread is started only in the step in which the
\* save_surveys() of a submit_survey returns, the lock released; a step of a
\* started send_to_jira changes neither the lock, nor a map, nor a file, nor
\* the state or result of any call; and the lock is only ever held by a
\* thread of the store.
C17_DeliveryIsolated ==
    [][\A w \in Workers :
          /\ surveys_lock'[w] \in Tids \cup {Free}
          /\ \A i \in 1..MaxRequests :
                /\ (i \notin DOMAIN jira[w] /\ i \in DOMAIN jira'[w]) =>
                      \E t \in Threads :
                         /\ thread[w][t].op = "submit"
                         /\ thread[w][t].pc \in {"write", "replace"}
                         /\ thread'[w][t].pc = "done"
                         /\ thread'[w][t].res = "ok"
                         /\ surveys_lock[w] = t
                         /\ surveys_lock'[w] = Free
                /\ (/\ i \in DOMAIN jira[w] /\ i \in DOMAIN jira'[w]
                    /\ jira'[w][i] # jira[w][i]) =>
                      UNCHANGED store]_vars

\* C17 witness: a send_to_jira that has sent a POST is still under way while
\* a later call of the same process holds the lock, the submission that
\* started it having returned ok.
C17_Witness ==
    \E w \in Workers : \E d \in {jira[w][i] : i \in DOMAIN jira[w]} :
        /\ d.pc \in {"post", "sleep"} /\ d.posts > 0
        /\ surveys_lock[w] \in Threads
        /\ \E token \in Tokens : consumed[token][w] # "no"

\* Thread t of worker w has changed the map in create_survey, submit_survey or
\* cleanup_expired_surveys and its save_surveys() has not yet replaced the file.
Unpersisted(w, t) ==
    /\ thread[w][t].op \in {"create", "submit"}
    /\ thread[w][t].pc \in {"save", "write", "replace"}

\* C18: from the mutation of the map to the end of the file replace the
\* mutating call is alone in the store: while its process lives, no other
\* thread of the process begins or continues a store operation, and the map
\* changes by no other hand.
C18_OneCriticalSection ==
    [][\A w \in Workers, t \in Threads :
          (Unpersisted(w, t) /\ restarts' = restarts) =>
              /\ \A u \in Tids \ {t} : thread'[w][u] = thread[w][u]
              /\ thread'[w][t].pc = thread[w][t].pc =>
                    pending_surveys'[w] = pending_surveys[w]]_vars

\* The sleeps of a send_to_jira follow the schedule: the sleep after the k-th
\* attempt lasts base_delay * 2^(k-1), every sleep follows a failed attempt
\* that another attempt comes after, and none follows the last attempt.
OnSchedule(d) ==
    /\ \A k \in DOMAIN d.sleeps :
          /\ d.sleeps[k] = base_delay * (2 ^ (k - 1))
          /\ k < max_retries
          /\ k <= Len(d.outcomes) /\ Retryable(d.outcomes[k])
    /\ Len(d.sleeps) = (IF d.pc \in {"sleep", "post"} THEN d.posts
                        ELSE IF d.posts = 0 THEN 0 ELSE d.posts - 1)

\* C19 as stated: the sleeps follow the schedule, and a send_to_jira whose
\* every attempt failed has slept 1s, 2s and 4s.
C19_BackoffThreeDelays ==
    \A d \in Deliveries :
        /\ OnSchedule(d)
        /\ (d.pc = "done" /\ d.result = "gave up") => d.sleeps = <<1, 2, 4>>

\* C19 as amended: the sleeps follow the schedule, and a send_to_jira whose
\* every attempt failed has slept 1s and 2s: two sleeps between three
\* attempts.
C19_BackoffTwoDelays ==
    \A d \in Deliveries :
        /\ OnSchedule(d)
        /\ (d.pc = "done" /\ d.result = "gave up") => d.sleeps = <<1, 2>>

\* C19 witness: a send_to_jira has given up after three failed attempts and
\* two sleeps.
C19_Witness ==
    \E d \in Deliveries :
        /\ d.pc = "done" /\ d.result = "gave up"
        /\ d.posts = 3 /\ d.sleeps = <<1, 2>>

\* A step of get_survey in thread t of worker w.
GetSteps(w, t) ==
    \/ \E token \in known : GetLookup(w, t, token)
    \/ GetReload(w, t)

\* C20 as stated: a step of get_survey leaves every in-memory map and the
\* files exactly as they were.
C20_GetReadOnly ==
    [][\A w \in Workers, t \in Threads :
          GetSteps(w, t) =>
              /\ pending_surveys' = pending_surveys
              /\ UNCHANGED files]_vars

\* C20 as amended: a step of get_survey leaves the files as they were and
\* removes or alters no record of a map, is_used included; the one change it
\* can make is to put the record of its token, as read from disk, in the map
\* of its process that lacked it.
C20_GetOnlyCaches ==
    [][\A w \in Workers, t \in Threads :
          GetSteps(w, t) =>
              LET m == pending_surveys[w]
                  token == thread'[w][t].tok
              IN  /\ UNCHANGED files
                  /\ \A v \in Workers \ {w} :
                        pending_surveys'[v] = pending_surveys[v]
                  /\ \/ pending_surveys'[w] = m
                     \/ /\ token \notin DOMAIN m
                        /\ pending_surveys'[w] =
                              MapPut(m, token, reload_from_disk(token))]_vars

\* C20 witness: a get_survey has served a token it read from disk, and the
\* record is in the map of its process as it is on disk.
C20_Witness ==
    \E w \in Workers, t \in Threads :
        /\ thread[w][t].op = "get" /\ thread[w][t].pc = "done"
        /\ thread[w][t].reloaded /\ thread[w][t].res = "survey"
        /\ SURVEYS_FILE # NoFile
        /\ MapGet(pending_surveys[w], thread[w][t].tok)
              = reload_from_disk(thread[w][t].tok)

\* C21: no thread is about to call save_surveys() while it holds
\* surveys_lock; the lock is held only by a thread inside a locked region,
\* every way out of one having released it; and no thread waits for the lock
\* for ever: again and again the lock is free and no call is under way.
C21_LockDiscipline ==
    /\ [](\A w \in Workers, t \in Tids :
            /\ thread[w][t].pc \in {"save", "insert"} => surveys_lock[w] # t
            /\ surveys_lock[w] = t =>
                  thread[w][t].pc \in {"reload", "write", "replace"})
    /\ []<>(\A w \in Workers :
              /\ surveys_lock[w] = Free
              /\ \A t \in Tids : ~Running(thread[w][t]))

\* C21 witness: a thread at the door of save_surveys() waits for the lock
\* that another thread of its process holds inside a locked region.
C21_Witness ==
    \E w \in Workers, t, u \in Threads :
        /\ t # u
        /\ thread[w][t].pc = "save"
        /\ surveys_lock[w] = u
        /\ thread[w][u].pc \in {"reload", "write", "replace"}

====
